---- MODULE Spec2Model ----
(***************************************************************************)
(* Model of content_moderation (src/content_moderation.py): one session    *)
(* that stages a video, provisions a notification channel, starts a remote *)
(* moderation job, polls the queue for its completion, fetches the         *)
(* results, tears the resources down, tallies the labels and derives the   *)
(* verdict.  Every call to a remote service is one step that either        *)
(* succeeds or raises.                                                     *)
(***************************************************************************)
EXTENDS FiniteSets, Integers, Sequences, TLC

(* ---- bounds of the model ---- *)
MaxDetections == 3
MaxEmptyPolls == 2
MaxMessages == 2
TimeoutPolls == 1

(* ---- the output columns (the DataFrame's columns, in declaration order) ---- *)
columns ==
  << "nudity", "graphic_male_nudity", "graphic_female_nudity",
     "sexual_activity", "illustrated_explicit_nudity", "adult_toys",
     "female_swimwear_or_underwear", "male_swimwear_or_underwear", "partial_nudity",
     "barechested_male", "revealing_clothes", "sexual_situations",
     "graphic_violence_or_gore", "physical_violence", "weapon_violence",
     "weapons", "self_injury", "emaciated_bodies",
     "corpses", "hanging", "air_crash",
     "explosions_or_blasts", "middle_finger", "drug_products",
     "drug_use", "pills", "drug_paraphernalia",
     "tobacco_products", "smoking", "drinking",
     "alcoholic_beverages", "gambling", "nazi_party",
     "white_supremacy", "extremist" >>

CategoryKeys == {columns[k] : k \in 1..Len(columns)}

(* The label -> counter table read off the if/elif chain of the tally loop. *)
Taxonomy ==
  { <<"Nudity", "nudity">>,
    <<"Graphic Male Nudity", "graphic_male_nudity">>,
    <<"Graphic Female Nudity", "graphic_female_nudity">>,
    <<"Sexual Activity", "sexual_activity">>,
    <<"Illustrated Explicity Nudity", "illustrated_explicit_nudity">>,
    <<"Adult Toys", "adult_toys">>,
    <<"Female Swimwear Or Underwear", "female_swimwear_or_underwear">>,
    <<"Male Swimwear Or Underwear", "male_swimwear_or_underwear">>,
    <<"Partial Nudity", "partial_nudity">>,
    <<"Barechested Male", "barechested_male">>,
    <<"Revealing Clothes", "revealing_clothes">>,
    <<"Sexual Situations", "sexual_situations">>,
    <<"Graphic Violence Or Gore", "graphic_violence_or_gore">>,
    <<"Physical Violence", "physical_violence">>,
    <<"Weapon Violence", "weapon_violence">>,
    <<"Weapons", "weapons">>,
    <<"Self Injury", "self_injury">>,
    <<"Emaciated Bodies", "emaciated_bodies">>,
    <<"Corpses", "corpses">>,
    <<"Hanging", "hanging">>,
    <<"Air Crash", "air_crash">>,
    <<"Explosion Or Blasts", "explosions_or_blasts">>,
    <<"Middle Finger", "middle_finger">>,
    <<"Drug Products", "drug_products">>,
    <<"Drug Use", "drug_use">>,
    <<"Pills", "pills">>,
    <<"Drug Paraphernalia", "drug_paraphernalia">>,
    <<"Tobacco Products", "tobacco_products">>,
    <<"Smoking", "smoking">>,
    <<"Drinking", "drinking">>,
    <<"Gambling", "gambling">>,
    <<"Nazi Party", "nazi_party">>,
    <<"White Supremacy", "white_supremacy">>,
    <<"Extremist", "extremist">> }

MappedLabels == {t[1] : t \in Taxonomy}

(* Label names the remote service may report: the ones the chain compares  *)
(* against and two names of the service's own label set that it does not.  *)
UnmappedLabels == {"Explicit Nudity", "Alcoholic Beverages"}

LabelNames == MappedLabels \cup UnmappedLabels

(* The results a job may report: any single label name, and every sequence *)
(* of up to MaxDetections detections over a sample of the names.           *)
SampleLabels == {"Nudity", "Weapons", "Drinking", "Explicit Nudity"}

(* One pass of the loop body: the if/elif chain on the label name. *)
Inc(c, k) == [c EXCEPT ![k] = @ + 1]

\* The chain with the "Weapons" branch incrementing its neighbour's counter.
CountLabelSlip(c, label) ==
  IF label \in MappedLabels
    THEN LET k == CHOOSE key \in CategoryKeys : <<label, key>> \in Taxonomy
         IN  Inc(c, IF k = "weapons" THEN "weapon_violence" ELSE k)
    ELSE c

CountLabel(c, label) ==
  IF label = "Nudity" THEN Inc(c, "nudity")
  ELSE IF label = "Graphic Male Nudity" THEN Inc(c, "graphic_male_nudity")
  ELSE IF label = "Graphic Female Nudity" THEN Inc(c, "graphic_female_nudity")
  ELSE IF label = "Sexual Activity" THEN Inc(c, "sexual_activity")
  ELSE IF label = "Illustrated Explicity Nudity" THEN Inc(c, "illustrated_explicit_nudity")
  ELSE IF label = "Adult Toys" THEN Inc(c, "adult_toys")
  ELSE IF label = "Female Swimwear Or Underwear" THEN Inc(c, "female_swimwear_or_underwear")
  ELSE IF label = "Male Swimwear Or Underwear" THEN Inc(c, "male_swimwear_or_underwear")
  ELSE IF label = "Partial Nudity" THEN Inc(c, "partial_nudity")
  ELSE IF label = "Barechested Male" THEN Inc(c, "barechested_male")
  ELSE IF label = "Revealing Clothes" THEN Inc(c, "revealing_clothes")
  ELSE IF label = "Sexual Situations" THEN Inc(c, "sexual_situations")
  ELSE IF label = "Graphic Violence Or Gore" THEN Inc(c, "graphic_violence_or_gore")
  ELSE IF label = "Physical Violence" THEN Inc(c, "physical_violence")
  ELSE IF label = "Weapon Violence" THEN Inc(c, "weapon_violence")
  ELSE IF label = "Weapons" THEN Inc(c, "weapons")
  ELSE IF label = "Self Injury" THEN Inc(c, "self_injury")
  ELSE IF label = "Emaciated Bodies" THEN Inc(c, "emaciated_bodies")
  ELSE IF label = "Corpses" THEN Inc(c, "corpses")
  ELSE IF label = "Hanging" THEN Inc(c, "hanging")
  ELSE IF label = "Air Crash" THEN Inc(c, "air_crash")
  ELSE IF label = "Explosion Or Blasts" THEN Inc(c, "explosions_or_blasts")
  ELSE IF label = "Middle Finger" THEN Inc(c, "middle_finger")
  ELSE IF label = "Drug Products" THEN Inc(c, "drug_products")
  ELSE IF label = "Drug Use" THEN Inc(c, "drug_use")
  ELSE IF label = "Pills" THEN Inc(c, "pills")
  ELSE IF label = "Drug Paraphernalia" THEN Inc(c, "drug_paraphernalia")
  ELSE IF label = "Tobacco Products" THEN Inc(c, "tobacco_products")
  ELSE IF label = "Smoking" THEN Inc(c, "smoking")
  ELSE IF label = "Drinking" THEN Inc(c, "drinking")
  ELSE IF label = "Gambling" THEN Inc(c, "gambling")
  ELSE IF label = "Nazi Party" THEN Inc(c, "nazi_party")
  ELSE IF label = "White Supremacy" THEN Inc(c, "white_supremacy")
  ELSE IF label = "Extremist" THEN Inc(c, "extremist")
  ELSE c

(* ---- identifiers and values exchanged with the remote services ---- *)
JobIds == {"job-1", "job-2"}
ForeignJobIds == {"job-0"}
Statuses == {"SUCCEEDED", "FAILED"}
None == "None"
Calls == {1, 2}

VARIABLES
  pc,           \* position of the session in content_moderation
  err,          \* the exception that ended the session, or "none"
  failedAt,     \* the position at which it was raised
  aws,          \* which remote resources exist
  self,         \* the RekognitionVideo fields topic, queue, role
  msgs,         \* the messages held by the queue
  job_id,       \* the id returned by the start call
  poll,         \* the locals of poll_notification
  calls,        \* how many times each remote operation was invoked
  get_labels,   \* the value returned by do_content_moderation
  tally,        \* the counters of the tally loop and its position
  pred_values,  \* the dictionary returned by the session
  sessions      \* the calls of content_moderation that run concurrently

vars == <<pc, err, failedAt, aws, self, msgs, job_id, poll, calls,
          get_labels, tally, pred_values, sessions>>

Raise(e) ==
  /\ pc' = "raised"
  /\ err' = e
  /\ failedAt' = pc

Goto(p) ==
  /\ pc' = p
  /\ UNCHANGED sessions
  /\ UNCHANGED <<err, failedAt>>

Init ==
  /\ pc = "create_bucket"
  /\ err = "none"
  /\ failedAt = "none"
  /\ aws = [bucket |-> FALSE, object |-> FALSE, topic |-> FALSE, queue |-> FALSE,
            queuePolicy |-> FALSE, subscription |-> FALSE, role |-> FALSE,
            policy |-> FALSE, attached |-> FALSE]
  /\ self = [topic |-> None, queue |-> None, role |-> None]
  /\ msgs = <<>>
  /\ job_id = None
  /\ poll = [messages |-> <<>>, idx |-> 0, status |-> None, job_done |-> FALSE,
             empties |-> 0, deleted |-> <<>>, returned |-> FALSE,
             source |-> [JobId |-> None, Status |-> None]]
  /\ calls = [start |-> 0, receive |-> 0, fetch |-> 0, close |-> 0,
              attempts |-> {}, deletions |-> 0, published |-> 0]
  /\ get_labels = [isDict |-> FALSE, ModerationLabels |-> <<>>]
  /\ tally = [i |-> 0, counters |-> [k \in CategoryKeys |-> 0]]
  /\ pred_values = <<>>
  /\ sessions = [s \in Calls |->
                   [pc |-> "idle", err |-> "none", failedAt |-> "none",
                    self |-> [topic |-> None, queue |-> None, role |-> None],
                    job_id |-> None, messages |-> <<>>, idx |-> 0,
                    status |-> None, job_done |-> FALSE]]

(* ---- staging the video ---- *)
create_bucket ==
  /\ pc = "create_bucket"
  /\ \/ /\ aws' = [aws EXCEPT !.bucket = TRUE]
        /\ Goto("upload_file")
     \/ /\ Raise("ClientError")
        /\ UNCHANGED aws
  /\ UNCHANGED sessions
  /\ UNCHANGED <<self, msgs, job_id, poll, calls, get_labels, tally, pred_values>>

upload_file ==
  /\ pc = "upload_file"
  /\ \/ /\ aws' = [aws EXCEPT !.object = TRUE]
        /\ Goto("create_topic")
     \/ /\ Raise("S3UploadFailedError")
        /\ UNCHANGED aws
  /\ UNCHANGED sessions
  /\ UNCHANGED <<self, msgs, job_id, poll, calls, get_labels, tally, pred_values>>

(* ---- create_notification_channel, one remote call per step ---- *)
create_topic ==
  /\ pc = "create_topic"
  /\ \/ /\ aws' = [aws EXCEPT !.topic = TRUE]
        /\ self' = [self EXCEPT !.topic = "topic"]
        /\ Goto("create_queue")
     \/ /\ Raise("ClientError")
        /\ UNCHANGED <<aws, self>>
  /\ UNCHANGED sessions
  /\ UNCHANGED <<msgs, job_id, poll, calls, get_labels, tally, pred_values>>

create_queue ==
  /\ pc = "create_queue"
  /\ \/ /\ aws' = [aws EXCEPT !.queue = TRUE]
        /\ self' = [self EXCEPT !.queue = "queue"]
        /\ Goto("set_attributes")
     \/ /\ Raise("ClientError")
        /\ UNCHANGED <<aws, self>>
  /\ UNCHANGED sessions
  /\ UNCHANGED <<msgs, job_id, poll, calls, get_labels, tally, pred_values>>

set_attributes ==
  /\ pc = "set_attributes"
  /\ \/ /\ aws' = [aws EXCEPT !.queuePolicy = TRUE]
        /\ Goto("subscribe")
     \/ /\ Raise("ClientError")
        /\ UNCHANGED aws
  /\ UNCHANGED sessions
  /\ UNCHANGED <<self, msgs, job_id, poll, calls, get_labels, tally, pred_values>>

subscribe ==
  /\ pc = "subscribe"
  /\ \/ /\ aws' = [aws EXCEPT !.subscription = TRUE]
        /\ Goto("create_role")
     \/ /\ Raise("ClientError")
        /\ UNCHANGED aws
  /\ UNCHANGED sessions
  /\ UNCHANGED <<self, msgs, job_id, poll, calls, get_labels, tally, pred_values>>

create_role ==
  /\ pc = "create_role"
  /\ \/ /\ ~aws.role
        /\ aws' = [aws EXCEPT !.role = TRUE]
        /\ self' = [self EXCEPT !.role = "role"]
        /\ Goto("create_policy")
     \/ /\ Raise("ClientError")
        /\ UNCHANGED <<aws, self>>
  /\ UNCHANGED sessions
  /\ UNCHANGED <<msgs, job_id, poll, calls, get_labels, tally, pred_values>>

\* The channel set-up without the attach_policy call.
create_policy_skip_attach ==
  /\ pc = "create_policy"
  /\ \/ /\ ~aws.policy
        /\ aws' = [aws EXCEPT !.policy = TRUE]
        /\ Goto("start_content_moderation")
     \/ /\ Raise("ClientError")
        /\ UNCHANGED aws
  /\ UNCHANGED sessions
  /\ UNCHANGED <<self, msgs, job_id, poll, calls, get_labels, tally, pred_values>>

create_policy ==
  /\ pc = "create_policy"
  /\ \/ /\ ~aws.policy
        /\ aws' = [aws EXCEPT !.policy = TRUE]
        /\ Goto("attach_policy")
     \/ /\ Raise("ClientError")
        /\ UNCHANGED aws
  /\ UNCHANGED sessions
  /\ UNCHANGED <<self, msgs, job_id, poll, calls, get_labels, tally, pred_values>>

attach_policy ==
  /\ pc = "attach_policy"
  /\ \/ /\ aws.role /\ aws.policy
        /\ aws' = [aws EXCEPT !.attached = TRUE]
        /\ Goto("start_content_moderation")
     \/ /\ Raise("ClientError")
        /\ UNCHANGED aws
  /\ UNCHANGED sessions
  /\ UNCHANGED <<self, msgs, job_id, poll, calls, get_labels, tally, pred_values>>

(* ---- the notification transport: a completion message reaches the queue ---- *)
Message(j, s) == [JobId |-> j, Status |-> s]

\* Messages that arrive after the poll loop has consumed its message are never
\* read by the session; the transport is followed up to that point.
Publish ==
  /\ aws.topic /\ aws.queue /\ aws.queuePolicy /\ aws.subscription
  /\ ~poll.job_done
  /\ Len(msgs) < MaxMessages
  /\ \E j \in JobIds \cup ForeignJobIds, s \in Statuses :
       /\ j \in JobIds => j = job_id
       /\ msgs' = Append(msgs, Message(j, s))
  /\ calls' = [calls EXCEPT !.published = @ + 1]
  /\ UNCHANGED sessions
  /\ UNCHANGED <<pc, err, failedAt, aws, self, job_id, poll,
                 get_labels, tally, pred_values>>

(* ---- _start_rekognition_job ---- *)
\* The start call wrapped in a retry: a rejected call is issued again.
start_content_moderation_retry ==
  /\ pc = "start_content_moderation"
  /\ calls' = [calls EXCEPT !.start = @ + 1]
  /\ \/ /\ \E j \in JobIds : job_id' = j
        /\ Goto("receive_messages")
     \/ /\ Goto("start_content_moderation")
        /\ UNCHANGED job_id
  /\ UNCHANGED sessions
  /\ UNCHANGED <<aws, self, msgs, poll, get_labels, tally, pred_values>>

start_content_moderation ==
  /\ pc = "start_content_moderation"
  /\ calls' = [calls EXCEPT !.start = @ + 1]
  /\ \/ /\ \E j \in JobIds : job_id' = j
        /\ Goto("receive_messages")
     \/ /\ Raise("ClientError")
        /\ UNCHANGED job_id
  /\ UNCHANGED sessions
  /\ UNCHANGED <<aws, self, msgs, poll, get_labels, tally, pred_values>>

(* ---- poll_notification ---- *)
RemoveAt(s, n) == SubSeq(s, 1, n - 1) \o SubSeq(s, n + 1, Len(s))

CorrelatedAny(id, message) == TRUE

Correlated(id, message) == id = message.JobId

\* The loop giving up on an empty receive: it ends with no status.
receive_messages_give_up ==
  /\ pc = "receive_messages"
  /\ ~poll.job_done
  /\ calls' = [calls EXCEPT !.receive = @ + 1]
  /\ \/ /\ aws.queue
        /\ msgs = <<>>
        /\ poll' = [poll EXCEPT !.messages = <<>>, !.idx = 0, !.job_done = TRUE]
        /\ Goto("poll_return")
     \/ /\ aws.queue
        /\ \E n \in 1..Len(msgs) :
             poll' = [poll EXCEPT !.messages = <<msgs[n]>>, !.idx = n]
        /\ Goto("check_job_id")
     \/ /\ Raise("ClientError")
        /\ UNCHANGED poll
  /\ UNCHANGED sessions
  /\ UNCHANGED <<aws, self, msgs, job_id, get_labels, tally, pred_values>>

\* One iteration of the while loop: a bounded-wait receive of at most one
\* message.  The long poll returns empty only if the queue holds no message.
receive_messages ==
  /\ pc = "receive_messages"
  /\ ~poll.job_done
  /\ calls' = [calls EXCEPT !.receive = @ + 1]
  /\ \/ /\ aws.queue
        /\ msgs = <<>>
        /\ poll.empties < MaxEmptyPolls
        /\ poll' = [poll EXCEPT !.messages = <<>>, !.idx = 0, !.empties = @ + 1]
        /\ Goto("receive_messages")
     \/ /\ aws.queue
        /\ \E n \in 1..Len(msgs) :
             poll' = [poll EXCEPT !.messages = <<msgs[n]>>, !.idx = n]
        /\ Goto("check_job_id")
     \/ /\ Raise("ClientError")
        /\ UNCHANGED poll
  /\ UNCHANGED sessions
  /\ UNCHANGED <<aws, self, msgs, job_id, get_labels, tally, pred_values>>

\* The loop body with the message deleted ahead of the comparison.
check_job_id_delete_first ==
  /\ pc = "check_job_id"
  /\ IF ~Correlated(job_id, poll.messages[1])
       THEN /\ Raise("RuntimeError")
            /\ msgs' = RemoveAt(msgs, poll.idx)
            /\ poll' = [poll EXCEPT !.deleted = Append(@, poll.messages[1])]
       ELSE /\ poll' = [poll EXCEPT !.status = poll.messages[1].Status,
                                     !.source = poll.messages[1]]
            /\ Goto("message_delete")
            /\ UNCHANGED msgs
  /\ UNCHANGED sessions
  /\ UNCHANGED <<aws, self, job_id, calls, get_labels, tally, pred_values>>

check_job_id ==
  /\ pc = "check_job_id"
  /\ IF ~Correlated(job_id, poll.messages[1])
       THEN /\ Raise("RuntimeError")
            /\ UNCHANGED poll
       ELSE /\ poll' = [poll EXCEPT !.status = poll.messages[1].Status,
                                     !.source = poll.messages[1]]
            /\ Goto("message_delete")
  /\ UNCHANGED sessions
  /\ UNCHANGED <<aws, self, msgs, job_id, calls, get_labels, tally, pred_values>>

\* The loop body without job_done = True: the loop polls on after the delete.
message_delete_continue ==
  /\ pc = "message_delete"
  /\ \/ /\ aws.queue
        /\ msgs' = RemoveAt(msgs, poll.idx)
        /\ poll' = [poll EXCEPT !.deleted = Append(@, poll.messages[1])]
        /\ Goto("receive_messages")
     \/ /\ Raise("ClientError")
        /\ UNCHANGED <<msgs, poll>>
  /\ UNCHANGED sessions
  /\ UNCHANGED <<aws, self, job_id, calls, get_labels, tally, pred_values>>

message_delete ==
  /\ pc = "message_delete"
  /\ \/ /\ aws.queue
        /\ msgs' = RemoveAt(msgs, poll.idx)
        /\ poll' = [poll EXCEPT !.deleted = Append(@, poll.messages[1]),
                                !.job_done = TRUE]
        /\ Goto("poll_return")
     \/ /\ Raise("ClientError")
        /\ UNCHANGED <<msgs, poll>>
  /\ UNCHANGED sessions
  /\ UNCHANGED <<aws, self, job_id, calls, get_labels, tally, pred_values>>

poll_return ==
  /\ pc = "poll_return"
  /\ poll.job_done
  /\ poll' = [poll EXCEPT !.returned = TRUE, !.messages = <<>>, !.idx = 0,
                          !.empties = 0]
  /\ Goto("do_rekognition_job")
  /\ UNCHANGED sessions
  /\ UNCHANGED <<aws, self, msgs, job_id, calls, get_labels, tally, pred_values>>

(* ---- _do_rekognition_job and _get_rekognition_job_results ---- *)
JobSucceededAlways(status) == TRUE

JobSucceeded(status) == status = "SUCCEEDED"

RECURSIVE SeqsUpTo(_, _)
SeqsUpTo(S, n) ==
  IF n = 0 THEN {<<>>}
  ELSE LET shorter == SeqsUpTo(S, n - 1)
       IN  shorter \cup {Append(d, x) : d \in shorter, x \in S}

Detections == SeqsUpTo(LabelNames, 1) \cup SeqsUpTo(SampleLabels, MaxDetections)

do_rekognition_job ==
  /\ pc = "do_rekognition_job"
  /\ IF JobSucceeded(poll.status)
       THEN /\ Goto("get_content_moderation")
            /\ UNCHANGED get_labels
       ELSE /\ get_labels' = [isDict |-> FALSE, ModerationLabels |-> <<>>]
            /\ Goto("delete_notification_channel")
  /\ UNCHANGED sessions
  /\ UNCHANGED <<aws, self, msgs, job_id, poll, calls, tally, pred_values>>

get_content_moderation ==
  /\ pc = "get_content_moderation"
  /\ calls' = [calls EXCEPT !.fetch = @ + 1]
  /\ \/ /\ \E D \in Detections :
             get_labels' = [isDict |-> TRUE, ModerationLabels |-> D]
        /\ Goto("delete_notification_channel")
     \/ /\ Raise("ClientError")
        /\ UNCHANGED get_labels
  /\ UNCHANGED sessions
  /\ UNCHANGED <<aws, self, msgs, job_id, poll, tally, pred_values>>

(* ---- delete_notification_channel ---- *)
\* The method with the topic deleted first.
delete_notification_channel_topic_first ==
  /\ pc = "delete_notification_channel"
  /\ calls' = [calls EXCEPT !.close = @ + 1, !.attempts = {}]
  /\ IF self.role = None
       THEN Raise("AttributeError")
       ELSE \/ Goto("topic_delete")
            \/ Raise("ClientError")
  /\ UNCHANGED sessions
  /\ UNCHANGED <<aws, self, msgs, job_id, poll, get_labels, tally, pred_values>>

\* Entry of the method: the iteration over self.role.attached_policies.
delete_notification_channel ==
  /\ pc = "delete_notification_channel"
  /\ calls' = [calls EXCEPT !.close = @ + 1, !.attempts = {}]
  /\ IF self.role = None
       THEN Raise("AttributeError")
       ELSE \/ Goto(IF aws.attached THEN "detach_policy" ELSE "role_delete")
            \/ Raise("ClientError")
  /\ UNCHANGED sessions
  /\ UNCHANGED <<aws, self, msgs, job_id, poll, get_labels, tally, pred_values>>

detach_policy ==
  /\ pc = "detach_policy"
  /\ calls' = [calls EXCEPT !.attempts = @ \cup {"grant"}]
  /\ \/ /\ aws.attached
        /\ aws' = [aws EXCEPT !.attached = FALSE]
        /\ Goto("policy_delete")
     \/ /\ Raise("ClientError")
        /\ UNCHANGED aws
  /\ UNCHANGED sessions
  /\ UNCHANGED <<self, msgs, job_id, poll, get_labels, tally, pred_values>>

policy_delete ==
  /\ pc = "policy_delete"
  /\ \/ /\ aws.policy
        /\ aws' = [aws EXCEPT !.policy = FALSE]
        /\ calls' = [calls EXCEPT !.deletions = @ + 1]
        /\ Goto("role_delete")
     \/ /\ Raise("ClientError")
        /\ UNCHANGED <<aws, calls>>
  /\ UNCHANGED sessions
  /\ UNCHANGED <<self, msgs, job_id, poll, get_labels, tally, pred_values>>

role_delete ==
  /\ pc = "role_delete"
  /\ \/ /\ aws.role /\ ~aws.attached
        /\ aws' = [aws EXCEPT !.role = FALSE]
        /\ self' = [self EXCEPT !.role = None]
        /\ calls' = [calls EXCEPT !.attempts = @ \cup {"grant"}, !.deletions = @ + 1]
        /\ Goto("queue_delete")
     \/ /\ Raise("ClientError")
        /\ calls' = [calls EXCEPT !.attempts = @ \cup {"grant"}]
        /\ UNCHANGED <<aws, self>>
  /\ UNCHANGED sessions
  /\ UNCHANGED <<msgs, job_id, poll, get_labels, tally, pred_values>>

queue_delete ==
  /\ pc = "queue_delete"
  /\ \/ /\ aws.queue
        /\ aws' = [aws EXCEPT !.queue = FALSE, !.queuePolicy = FALSE]
        /\ self' = [self EXCEPT !.queue = None]
        /\ msgs' = <<>>
        /\ calls' = [calls EXCEPT !.attempts = @ \cup {"queue"}, !.deletions = @ + 1]
        /\ Goto("topic_delete")
     \/ /\ Raise("ClientError")
        /\ calls' = [calls EXCEPT !.attempts = @ \cup {"queue"}]
        /\ UNCHANGED <<aws, self, msgs>>
  /\ UNCHANGED sessions
  /\ UNCHANGED <<job_id, poll, get_labels, tally, pred_values>>

topic_delete ==
  /\ pc = "topic_delete"
  /\ \/ /\ aws.topic
        /\ aws' = [aws EXCEPT !.topic = FALSE, !.subscription = FALSE]
        /\ self' = [self EXCEPT !.topic = None]
        /\ calls' = [calls EXCEPT !.attempts = @ \cup {"topic"}, !.deletions = @ + 1]
        /\ Goto(IF calls.close = 1 THEN "objects_delete" ELSE "done")
     \/ /\ Raise("ClientError")
        /\ calls' = [calls EXCEPT !.attempts = @ \cup {"topic"}]
        /\ UNCHANGED <<aws, self>>
  /\ UNCHANGED sessions
  /\ UNCHANGED <<msgs, job_id, poll, get_labels, tally, pred_values>>

(* ---- removal of the staged video ---- *)
\* The session with bucket.delete() left out: the tally follows the removal
\* of the bucket's objects.
objects_delete_skip_bucket ==
  /\ pc = "objects_delete"
  /\ \/ /\ aws' = [aws EXCEPT !.object = FALSE]
        /\ Goto("init_counters")
     \/ /\ Raise("ClientError")
        /\ UNCHANGED aws
  /\ UNCHANGED sessions
  /\ UNCHANGED <<self, msgs, job_id, poll, calls, get_labels, tally, pred_values>>

objects_delete ==
  /\ pc = "objects_delete"
  /\ \/ /\ aws' = [aws EXCEPT !.object = FALSE]
        /\ Goto("bucket_delete")
     \/ /\ Raise("ClientError")
        /\ UNCHANGED aws
  /\ UNCHANGED sessions
  /\ UNCHANGED <<self, msgs, job_id, poll, calls, get_labels, tally, pred_values>>

bucket_delete ==
  /\ pc = "bucket_delete"
  /\ \/ /\ aws' = [aws EXCEPT !.bucket = FALSE]
        /\ Goto("init_counters")
     \/ /\ Raise("ClientError")
        /\ UNCHANGED aws
  /\ UNCHANGED sessions
  /\ UNCHANGED <<self, msgs, job_id, poll, calls, get_labels, tally, pred_values>>

(* ---- the tally and the verdict ---- *)
init_counters ==
  /\ pc = "init_counters"
  /\ tally' = [i |-> 1, counters |-> [k \in CategoryKeys |-> 0]]
  /\ Goto("for_labels")
  /\ UNCHANGED sessions
  /\ UNCHANGED <<aws, self, msgs, job_id, poll, calls, get_labels, pred_values>>

\* The loop with a break on a label name that no branch tests.
for_labels_break ==
  /\ pc = "for_labels"
  /\ IF ~get_labels.isDict
       THEN /\ Raise("TypeError")
            /\ UNCHANGED tally
       ELSE IF /\ tally.i <= Len(get_labels.ModerationLabels)
               /\ get_labels.ModerationLabels[tally.i] \in MappedLabels
         THEN /\ tally' = [i |-> tally.i + 1,
                           counters |-> CountLabel(tally.counters,
                                           get_labels.ModerationLabels[tally.i])]
              /\ Goto("for_labels")
         ELSE /\ Goto("new_row")
              /\ UNCHANGED tally
  /\ UNCHANGED sessions
  /\ UNCHANGED <<aws, self, msgs, job_id, poll, calls, get_labels, pred_values>>

\* for labels in get_labels['ModerationLabels']: subscripting the empty list
\* that stands for a failed job with a string raises TypeError.
for_labels ==
  /\ pc = "for_labels"
  /\ IF ~get_labels.isDict
       THEN /\ Raise("TypeError")
            /\ UNCHANGED tally
       ELSE IF tally.i <= Len(get_labels.ModerationLabels)
         THEN /\ tally' = [i |-> tally.i + 1,
                           counters |-> CountLabel(tally.counters,
                                           get_labels.ModerationLabels[tally.i])]
              /\ Goto("for_labels")
         ELSE /\ Goto("new_row")
              /\ UNCHANGED tally
  /\ UNCHANGED sessions
  /\ UNCHANGED <<aws, self, msgs, job_id, poll, calls, get_labels, pred_values>>

RECURSIVE SumRow(_, _)
SumRow(row, n) == IF n = 0 THEN 0 ELSE row[columns[n]] + SumRow(row, n - 1)

LabelOffByOne(labels_count) == IF labels_count <= 1 THEN "allowed" ELSE "rejected"

Label(labels_count) == IF labels_count < 1 THEN "allowed" ELSE "rejected"

\* The row appended to the frame, the sum of its cells, the label column and
\* the dictionary that is returned.
new_row ==
  /\ pc = "new_row"
  /\ LET row == [k \in CategoryKeys |-> tally.counters[k]]
         labels_count == SumRow(row, Len(columns))
     IN  pred_values' = [k \in CategoryKeys \cup {"label"} |->
                           IF k = "label" THEN Label(labels_count) ELSE row[k]]
  /\ Goto("done")
  /\ UNCHANGED sessions
  /\ UNCHANGED <<aws, self, msgs, job_id, poll, calls, get_labels, tally>>

\* A caller invoking delete_notification_channel again on the video object
\* after the first call completed.
close_again ==
  /\ pc = "done"
  /\ calls.close = 1
  /\ Goto("delete_notification_channel")
  /\ UNCHANGED sessions
  /\ UNCHANGED <<aws, self, msgs, job_id, poll, calls, get_labels, tally, pred_values>>

Session ==
  \/ create_bucket \/ upload_file
  \/ create_topic \/ create_queue \/ set_attributes \/ subscribe
  \/ create_role \/ create_policy \/ attach_policy
  \/ start_content_moderation
  \/ receive_messages \/ check_job_id \/ message_delete \/ poll_return
  \/ do_rekognition_job \/ get_content_moderation
  \/ delete_notification_channel \/ detach_policy \/ policy_delete
  \/ role_delete \/ queue_delete \/ topic_delete
  \/ objects_delete \/ bucket_delete
  \/ init_counters \/ for_labels \/ new_row

Next == Session \/ Publish

Spec == Init /\ [][Next]_vars

NextClose == Next \/ close_again

SpecClose == Init /\ [][NextClose]_vars

\* The session is one sequential task: it takes its next step whenever it has
\* one.  The transport is under no obligation to deliver anything.
SpecLive == Init /\ [][Next]_vars /\ WF_vars(Session)

(* ---- two calls of content_moderation running concurrently ---- *)
\* Both calls pass the same resource name to create_notification_channel, so
\* the topic, queue, role and policy of either call are the ones recorded in
\* aws and both poll the queue that holds msgs: creating an existing topic or
\* queue returns it, creating an existing role or policy is rejected.  Each
\* call's bucket has a name of its own and its tally is local; a call is
\* followed from the channel set-up to the end of
\* delete_notification_channel.
ConcGoto(s, p) == sessions' = [sessions EXCEPT ![s].pc = p]

ConcRaise(s, e) ==
  sessions' = [sessions EXCEPT ![s].pc = "raised", ![s].err = e,
                               ![s].failedAt = sessions[s].pc]

FirstUnchanged ==
  UNCHANGED <<pc, err, failedAt, self, job_id, poll, calls, get_labels, tally,
              pred_values>>

conc_begin(s) ==
  /\ sessions[s].pc = "idle"
  /\ ConcGoto(s, "create_topic")
  /\ UNCHANGED <<aws, msgs>>
  /\ FirstUnchanged

conc_create_topic(s) ==
  /\ sessions[s].pc = "create_topic"
  /\ \/ /\ aws' = [aws EXCEPT !.topic = TRUE]
        /\ sessions' = [sessions EXCEPT ![s].pc = "create_queue", ![s].self.topic = "topic"]
     \/ /\ ConcRaise(s, "ClientError")
        /\ UNCHANGED aws
  /\ UNCHANGED msgs
  /\ FirstUnchanged

conc_create_queue(s) ==
  /\ sessions[s].pc = "create_queue"
  /\ \/ /\ aws' = [aws EXCEPT !.queue = TRUE]
        /\ sessions' = [sessions EXCEPT ![s].pc = "set_attributes", ![s].self.queue = "queue"]
     \/ /\ ConcRaise(s, "ClientError")
        /\ UNCHANGED aws
  /\ UNCHANGED msgs
  /\ FirstUnchanged

conc_set_attributes(s) ==
  /\ sessions[s].pc = "set_attributes"
  /\ \/ /\ aws.queue
        /\ aws' = [aws EXCEPT !.queuePolicy = TRUE]
        /\ ConcGoto(s, "subscribe")
     \/ /\ ConcRaise(s, "ClientError")
        /\ UNCHANGED aws
  /\ UNCHANGED msgs
  /\ FirstUnchanged

conc_subscribe(s) ==
  /\ sessions[s].pc = "subscribe"
  /\ \/ /\ aws.topic
        /\ aws' = [aws EXCEPT !.subscription = TRUE]
        /\ ConcGoto(s, "create_role")
     \/ /\ ConcRaise(s, "ClientError")
        /\ UNCHANGED aws
  /\ UNCHANGED msgs
  /\ FirstUnchanged

conc_create_role(s) ==
  /\ sessions[s].pc = "create_role"
  /\ \/ /\ ~aws.role
        /\ aws' = [aws EXCEPT !.role = TRUE]
        /\ sessions' = [sessions EXCEPT ![s].pc = "create_policy", ![s].self.role = "role"]
     \/ /\ ConcRaise(s, "ClientError")
        /\ UNCHANGED aws
  /\ UNCHANGED msgs
  /\ FirstUnchanged

conc_create_policy(s) ==
  /\ sessions[s].pc = "create_policy"
  /\ \/ /\ ~aws.policy
        /\ aws' = [aws EXCEPT !.policy = TRUE]
        /\ ConcGoto(s, "attach_policy")
     \/ /\ ConcRaise(s, "ClientError")
        /\ UNCHANGED aws
  /\ UNCHANGED msgs
  /\ FirstUnchanged

conc_attach_policy(s) ==
  /\ sessions[s].pc = "attach_policy"
  /\ \/ /\ aws.role /\ aws.policy
        /\ aws' = [aws EXCEPT !.attached = TRUE]
        /\ ConcGoto(s, "start_content_moderation")
     \/ /\ ConcRaise(s, "ClientError")
        /\ UNCHANGED aws
  /\ UNCHANGED msgs
  /\ FirstUnchanged

conc_start_content_moderation(s) ==
  /\ sessions[s].pc = "start_content_moderation"
  /\ \/ \E j \in JobIds \ {sessions[t].job_id : t \in Calls} :
          sessions' = [sessions EXCEPT ![s].pc = "receive_messages", ![s].job_id = j]
     \/ ConcRaise(s, "ClientError")
  /\ UNCHANGED <<aws, msgs>>
  /\ FirstUnchanged

conc_receive_messages(s) ==
  /\ sessions[s].pc = "receive_messages"
  /\ ~sessions[s].job_done
  /\ \/ /\ aws.queue
        /\ msgs = <<>>
        /\ sessions' = [sessions EXCEPT ![s].messages = <<>>, ![s].idx = 0]
     \/ /\ aws.queue
        /\ \E n \in 1..Len(msgs) :
             sessions' = [sessions EXCEPT ![s].pc = "check_job_id", ![s].messages = <<msgs[n]>>,
                                    ![s].idx = n]
     \/ ConcRaise(s, "ClientError")
  /\ UNCHANGED <<aws, msgs>>
  /\ FirstUnchanged

conc_check_job_id(s) ==
  /\ sessions[s].pc = "check_job_id"
  /\ IF ~Correlated(sessions[s].job_id, sessions[s].messages[1])
       THEN ConcRaise(s, "RuntimeError")
       ELSE sessions' = [sessions EXCEPT ![s].pc = "message_delete",
                                   ![s].status = sessions[s].messages[1].Status]
  /\ UNCHANGED <<aws, msgs>>
  /\ FirstUnchanged

conc_message_delete(s) ==
  /\ sessions[s].pc = "message_delete"
  /\ \/ /\ aws.queue
        /\ \E n \in 1..Len(msgs) :
             /\ msgs[n] = sessions[s].messages[1]
             /\ msgs' = RemoveAt(msgs, n)
        /\ sessions' = [sessions EXCEPT ![s].pc = "poll_return", ![s].job_done = TRUE]
     \/ /\ ConcRaise(s, "ClientError")
        /\ UNCHANGED msgs
  /\ UNCHANGED aws
  /\ FirstUnchanged

conc_poll_return(s) ==
  /\ sessions[s].pc = "poll_return"
  /\ sessions[s].job_done
  /\ sessions' = [sessions EXCEPT ![s].pc = "do_rekognition_job", ![s].messages = <<>>, ![s].idx = 0]
  /\ UNCHANGED <<aws, msgs>>
  /\ FirstUnchanged

conc_do_rekognition_job(s) ==
  /\ sessions[s].pc = "do_rekognition_job"
  /\ ConcGoto(s, IF JobSucceeded(sessions[s].status) THEN "get_content_moderation"
                                            ELSE "delete_notification_channel")
  /\ UNCHANGED <<aws, msgs>>
  /\ FirstUnchanged

conc_get_content_moderation(s) ==
  /\ sessions[s].pc = "get_content_moderation"
  /\ \/ ConcGoto(s, "delete_notification_channel")
     \/ ConcRaise(s, "ClientError")
  /\ UNCHANGED <<aws, msgs>>
  /\ FirstUnchanged

conc_delete_notification_channel(s) ==
  /\ sessions[s].pc = "delete_notification_channel"
  /\ IF sessions[s].self.role = None
       THEN ConcRaise(s, "AttributeError")
       ELSE \/ ConcGoto(s, IF aws.attached THEN "detach_policy" ELSE "role_delete")
            \/ ConcRaise(s, "ClientError")
  /\ UNCHANGED <<aws, msgs>>
  /\ FirstUnchanged

conc_detach_policy(s) ==
  /\ sessions[s].pc = "detach_policy"
  /\ \/ /\ aws.attached
        /\ aws' = [aws EXCEPT !.attached = FALSE]
        /\ ConcGoto(s, "policy_delete")
     \/ /\ ConcRaise(s, "ClientError")
        /\ UNCHANGED aws
  /\ UNCHANGED msgs
  /\ FirstUnchanged

conc_policy_delete(s) ==
  /\ sessions[s].pc = "policy_delete"
  /\ \/ /\ aws.policy
        /\ aws' = [aws EXCEPT !.policy = FALSE]
        /\ ConcGoto(s, "role_delete")
     \/ /\ ConcRaise(s, "ClientError")
        /\ UNCHANGED aws
  /\ UNCHANGED msgs
  /\ FirstUnchanged

conc_role_delete(s) ==
  /\ sessions[s].pc = "role_delete"
  /\ \/ /\ aws.role /\ ~aws.attached
        /\ aws' = [aws EXCEPT !.role = FALSE]
        /\ sessions' = [sessions EXCEPT ![s].pc = "queue_delete", ![s].self.role = None]
     \/ /\ ConcRaise(s, "ClientError")
        /\ UNCHANGED aws
  /\ UNCHANGED msgs
  /\ FirstUnchanged

conc_queue_delete(s) ==
  /\ sessions[s].pc = "queue_delete"
  /\ \/ /\ aws.queue
        /\ aws' = [aws EXCEPT !.queue = FALSE, !.queuePolicy = FALSE]
        /\ msgs' = <<>>
        /\ sessions' = [sessions EXCEPT ![s].pc = "topic_delete", ![s].self.queue = None]
     \/ /\ ConcRaise(s, "ClientError")
        /\ UNCHANGED <<aws, msgs>>
  /\ FirstUnchanged

conc_topic_delete(s) ==
  /\ sessions[s].pc = "topic_delete"
  /\ \/ /\ aws.topic
        /\ aws' = [aws EXCEPT !.topic = FALSE, !.subscription = FALSE]
        /\ sessions' = [sessions EXCEPT ![s].pc = "closed", ![s].self.topic = None]
     \/ /\ ConcRaise(s, "ClientError")
        /\ UNCHANGED aws
  /\ UNCHANGED msgs
  /\ FirstUnchanged

\* The transport delivers a completion message of either call's job, possibly
\* more than once, or a message of a job of neither.
conc_Publish ==
  /\ aws.topic /\ aws.queue /\ aws.queuePolicy /\ aws.subscription
  /\ Len(msgs) < MaxMessages
  /\ \E j \in JobIds \cup ForeignJobIds, st \in Statuses :
       /\ j \in JobIds => \E t \in Calls : j = sessions[t].job_id
       /\ msgs' = Append(msgs, Message(j, st))
  /\ UNCHANGED <<aws, sessions>>
  /\ FirstUnchanged

ConcSession(s) ==
  \/ conc_begin(s)
  \/ conc_create_topic(s) \/ conc_create_queue(s) \/ conc_set_attributes(s)
  \/ conc_subscribe(s) \/ conc_create_role(s) \/ conc_create_policy(s)
  \/ conc_attach_policy(s) \/ conc_start_content_moderation(s)
  \/ conc_receive_messages(s) \/ conc_check_job_id(s) \/ conc_message_delete(s)
  \/ conc_poll_return(s) \/ conc_do_rekognition_job(s)
  \/ conc_get_content_moderation(s)
  \/ conc_delete_notification_channel(s) \/ conc_detach_policy(s)
  \/ conc_policy_delete(s) \/ conc_role_delete(s) \/ conc_queue_delete(s)
  \/ conc_topic_delete(s)

NextTwo == conc_Publish \/ \E s \in Calls : ConcSession(s)

SpecTwo == Init /\ [][NextTwo]_vars

(* ---- positions ---- *)
StartSteps == {"start_content_moderation"}
PollSteps == {"receive_messages", "check_job_id", "message_delete", "poll_return"}
FetchSteps == {"get_content_moderation"}
OpenSteps == {"create_queue", "set_attributes", "subscribe", "create_role",
              "create_policy", "attach_policy"}
CloseSteps == {"delete_notification_channel", "detach_policy", "policy_delete",
               "role_delete", "queue_delete", "topic_delete"}
Ended == pc \in {"done", "raised"}
ChannelAbsent == ~aws.topic /\ ~aws.queue /\ ~aws.role /\ ~aws.policy
D == get_labels.ModerationLabels

\* The whole tally loop over a sequence of label names, as a fold.
RECURSIVE TallyOf(_, _)
TallyOf(labels, n) ==
  IF n = 0 THEN [k \in CategoryKeys |-> 0]
  ELSE CountLabel(TallyOf(labels, n - 1), labels[n])

Perms(seq) ==
  LET n == Len(seq)
      bijections == {f \in [1..n -> 1..n] : \A a, b \in 1..n : a # b => f[a] # f[b]}
  IN  {[k \in 1..n |-> seq[f[k]]] : f \in bijections}

Provisioned ==
  /\ aws.bucket /\ aws.object
  /\ aws.topic /\ aws.queue /\ aws.queuePolicy /\ aws.subscription
  /\ aws.role /\ aws.policy /\ aws.attached

\* The state of the session's job, read off the job id returned by the start
\* call and the status taken from the completion message.
JobState ==
  IF job_id = None THEN "NOT_STARTED"
  ELSE IF poll.status = None THEN "STARTED"
  ELSE poll.status
TallySteps == {"init_counters", "for_labels", "new_row"}
AllDeleted ==
  /\ ChannelAbsent /\ ~aws.attached
  /\ ~aws.object /\ ~aws.bucket
Hits(key) == Cardinality({n \in 1..Len(D) : <<D[n], key>> \in Taxonomy})

(* C1: a session that ends on a failure of the job start, of the await     *)
(* step or of the result fetch leaves no topic, queue, role or policy.     *)
C1_TeardownOnFailure ==
  (pc = "raised" /\ failedAt \in StartSteps \cup PollSteps \cup FetchSteps)
    => ChannelAbsent

(* C2: a status returned by poll_notification was read from a message      *)
(* whose JobId is the awaited job id; a message with another JobId makes   *)
(* the call raise at once, with no status returned.                        *)
C2_Correlation ==
  /\ poll.returned =>
       /\ poll.source.JobId = job_id
       /\ poll.status = poll.source.Status
  /\ pc \in {"message_delete", "poll_return"} => poll.messages[1].JobId = job_id
  /\ (pc = "raised" /\ failedAt = "check_job_id") =>
       /\ err = "RuntimeError"
       /\ poll.messages[1].JobId # job_id
       /\ ~poll.returned
       /\ poll.status = None

C2_Witness ==
  /\ poll.returned
  /\ \E n \in 1..Len(msgs) : msgs[n].JobId # job_id

(* C3: after a FAILED completion notification the session ends normally    *)
(* with every count 0 and the verdict allowed.                             *)
C3_FailedJobAllowed ==
  (poll.returned /\ poll.status = "FAILED" /\ Ended /\ err # "ClientError")
    => /\ pc = "done"
       /\ \A k \in CategoryKeys : pred_values[k] = 0
       /\ pred_values["label"] = "allowed"

(* C4: the results are fetched exactly once after poll_notification        *)
(* returned SUCCEEDED, never after FAILED or a polling error, and never    *)
(* before polling returned.                                                *)
C4_FetchOnce ==
  /\ calls.fetch <= 1
  /\ calls.fetch = 1 => (poll.returned /\ poll.status = "SUCCEEDED")
  /\ (poll.returned /\ poll.status = "SUCCEEDED"
        /\ pc \notin {"do_rekognition_job", "get_content_moderation"})
       => calls.fetch = 1

C4_Witness == pc = "done" /\ calls.fetch = 1 /\ poll.status = "SUCCEEDED"

(* C5: a call deletes at most one message; the message it deletes is the   *)
(* received one with the awaited JobId, removed from the queue once and    *)
(* before the status is returned; an empty receive deletes nothing.        *)
C5_DeleteOnce ==
  /\ Len(poll.deleted) <= 1
  /\ Len(poll.deleted) = 1 =>
       /\ poll.deleted[1] = poll.source
       /\ poll.deleted[1].JobId = job_id
  /\ (pc = "poll_return" \/ poll.returned) => Len(poll.deleted) = 1
  /\ pc \in {"receive_messages", "check_job_id", "message_delete"}
       => poll.deleted = <<>>
  /\ aws.queue => Len(msgs) + Len(poll.deleted) = calls.published

C5_Witness ==
  /\ poll.returned
  /\ poll.deleted = <<Message(job_id, poll.status)>>
  /\ calls.receive > 1
  /\ msgs # <<>>

(* C6: a second call of delete_notification_channel, after a first call    *)
(* completed, raises nothing and deletes nothing.                          *)
C6_CloseTwiceNoop == calls.close = 2 => (err = "none" /\ pc # "raised")

(* C7: when delete_notification_channel ends, the deletion of the grant,   *)
(* of the queue and of the topic have all been attempted, whichever of     *)
(* them failed.                                                            *)
C7_AllDeletionsAttempted ==
  (pc = "raised" /\ failedAt \in CloseSteps /\ calls.close = 1)
    => calls.attempts = {"grant", "queue", "topic"}

(* C8: a create_notification_channel that fails at a step after the topic  *)
(* was created leaves no topic, queue, role or policy behind.              *)
C8_OpenRollsBack ==
  (pc = "raised" /\ failedAt \in OpenSteps) => ChannelAbsent

(* C9: the returned dictionary has every category key, and each key's      *)
(* count is the number of detections whose label name maps to that key;    *)
(* unmapped labels change no count and keys hit by no label are 0.         *)
C9_Tally ==
  pc = "done" =>
    /\ DOMAIN pred_values = CategoryKeys \cup {"label"}
    /\ \A k \in CategoryKeys : pred_values[k] = Hits(k)

C9_Witness ==
  /\ pc = "done"
  /\ D = <<"Nudity", "Explicit Nudity", "Nudity">>
  /\ pred_values["nudity"] = 2

(* C10: the verdict is allowed exactly when the counts sum to 0; one       *)
(* nonzero category is enough for rejected.                                *)
C10_Verdict ==
  pc = "done" =>
    /\ pred_values["label"] \in {"allowed", "rejected"}
    /\ pred_values["label"] = "allowed" <=> SumRow(pred_values, Len(columns)) = 0
    /\ (\E k \in CategoryKeys : pred_values[k] # 0) => pred_values["label"] = "rejected"
    /\ (\A k \in CategoryKeys : pred_values[k] = 0) => pred_values["label"] = "allowed"

C10_Witness ==
  /\ pc = "done"
  /\ pred_values["label"] = "rejected"
  /\ SumRow(pred_values, Len(columns)) = 1

(* C11: of two concurrent sessions, neither receives the completion        *)
(* notification of the other one's job, so neither ends with a correlation *)
(* error caused by the other.                                              *)
C11_SessionsIsolated ==
  \A s \in Calls : \A t \in Calls \ {s} :
    ~(/\ sessions[s].messages # <<>>
      /\ sessions[t].job_id # None
      /\ sessions[s].messages[1].JobId = sessions[t].job_id)

(* C12: the job's state only moves NOT_STARTED -> STARTED -> SUCCEEDED,    *)
(* FAILED or TIMED_OUT and never back, and a receive is issued against the *)
(* queue only while the job is STARTED.                                    *)
C12_JobLifecycle ==
  [][ /\ JobState' # JobState =>
           <<JobState, JobState'>> \in
              {<<"NOT_STARTED", "STARTED">>, <<"STARTED", "SUCCEEDED">>,
               <<"STARTED", "FAILED">>, <<"STARTED", "TIMED_OUT">>}
      /\ calls'.receive # calls.receive => JobState = "STARTED" ]_vars

C12_Witness ==
  /\ pc = "poll_return"
  /\ JobState = "FAILED"
  /\ poll.empties = MaxEmptyPolls

(* C13: once a supplied timeout (TimeoutPolls poll intervals) has elapsed   *)
(* without a matching message, the await step stops polling: no further    *)
(* receive is issued.                                                      *)
C13_TimeoutEndsAwait ==
  [][ poll.empties >= TimeoutPolls => calls'.receive = calls.receive ]_vars

(* C14: the start operation is invoked at most once per session; when it   *)
(* is rejected the error ends the session, with no receive issued and no   *)
(* result fetch made.                                                      *)
C14_StartOnce ==
  /\ calls.start <= 1
  /\ failedAt = "start_content_moderation" =>
       /\ pc = "raised"
       /\ err = "ClientError"
       /\ calls.start = 1
       /\ job_id = None
       /\ calls.receive = 0
       /\ calls.fetch = 0
  /\ calls.receive > 0 => (calls.start = 1 /\ job_id # None)

C14_Witness ==
  /\ pc = "raised"
  /\ failedAt = "start_content_moderation"
  /\ calls.start = 1
  /\ aws.attached

(* C15: every category key is mapped from at least one label: for each key *)
(* some label name in the results makes its count nonzero.                 *)
C15_EveryKeyMapped ==
  pc = "done" =>
    \A k \in CategoryKeys :
      \E l \in LabelNames : CountLabel([c \in CategoryKeys |-> 0], l)[k] > 0

(* C16: delete_notification_channel deletes the grant (policy detached and *)
(* deleted, then the role), then the queue, then the topic: the queue is   *)
(* never deleted before the role, nor the topic before the queue.          *)
C16_CloseOrder ==
  calls.close >= 1 =>
    /\ self.role = None => (~aws.role /\ ~aws.attached /\ ~aws.policy)
    /\ (self.queue = None \/ "queue" \in calls.attempts) => self.role = None
    /\ self.queue = None => ~aws.queue
    /\ (self.topic = None \/ "topic" \in calls.attempts) => self.queue = None
    /\ self.topic = None => ~aws.topic

C16_Witness ==
  /\ pc = "topic_delete"
  /\ ~aws.role /\ ~aws.queue /\ aws.topic

(* C17: a message with another JobId makes poll_notification raise without *)
(* deleting it and without a further receive: the message is still in the  *)
(* queue and nothing was removed from it.                                  *)
C17_MismatchKeepsMessage ==
  (pc = "raised" /\ failedAt = "check_job_id") =>
    /\ poll.deleted = <<>>
    /\ poll.idx \in 1..Len(msgs)
    /\ msgs[poll.idx] = poll.messages[1]
    /\ Len(msgs) = calls.published
    /\ calls.receive = poll.empties + 1

C17_Witness ==
  /\ pc = "raised"
  /\ failedAt = "check_job_id"
  /\ poll.empties > 0
  /\ Len(msgs) = MaxMessages

PollEnded == poll.returned \/ (pc = "raised" /\ failedAt \in PollSteps)

(* C18: poll_notification polls on while receives return empty and ends at *)
(* the first receive that returns a message: with a message in the queue   *)
(* the call terminates, with a status or a correlation error, and the loop *)
(* is left in no other way.                                                *)
C18_PollTermination ==
  /\ (pc = "receive_messages" /\ msgs # <<>>)
       ~> (poll.returned \/ (pc = "raised" /\ err = "RuntimeError"))
  /\ [][ (pc = "receive_messages" /\ pc' # "receive_messages")
           => poll'.messages # <<>> ]_vars
  /\ [][ poll.messages # <<>> => calls'.receive = calls.receive ]_vars

(* C18 as amended: a failing receive or delete call also ends the call.    *)
C18_PollTerminationOrError ==
  /\ (pc = "receive_messages" /\ msgs # <<>>) ~> PollEnded
  /\ [][ (pc = "receive_messages" /\ pc' # "receive_messages")
           => \/ poll'.messages # <<>>
              \/ (pc' = "raised" /\ err' = "ClientError") ]_vars
  /\ [][ poll.messages # <<>> => calls'.receive = calls.receive ]_vars

C18_Witness ==
  /\ pc = "check_job_id"
  /\ poll.empties = MaxEmptyPolls
  /\ calls.receive = MaxEmptyPolls + 1

(* C19: the tally and the verdict do not depend on the order of the        *)
(* detections: every permutation of the results gives the returned counts  *)
(* and the returned verdict.                                               *)
C19_OrderIndependent ==
  pc = "done" =>
    \A P \in Perms(D) :
      LET c == TallyOf(P, Len(P))
      IN  /\ \A k \in CategoryKeys : pred_values[k] = c[k]
          /\ pred_values["label"] = Label(SumRow(c, Len(columns)))

C19_Witness ==
  /\ pc = "done"
  /\ D = <<"Weapons", "Explicit Nudity", "Nudity">>
  /\ pred_values["weapons"] = 1 /\ pred_values["nudity"] = 1

(* C20: the steps of a session are strictly ordered: the video is staged   *)
(* and the channel fully provisioned before the job is started, the job is *)
(* started before the first receive, the results are fetched only after    *)
(* polling returned, and the channel is closed only after the fetch step.  *)
C20_StepOrder ==
  /\ (calls.start >= 1 /\ calls.close = 0) => Provisioned
  /\ calls.receive >= 1 => (calls.start = 1 /\ job_id # None)
  /\ pc \in PollSteps => (calls.fetch = 0 /\ calls.close = 0)
  /\ calls.fetch >= 1 => poll.returned
  /\ pc = "get_content_moderation" => calls.close = 0
  /\ calls.close >= 1 =>
       /\ poll.returned
       /\ poll.status = "SUCCEEDED" => (calls.fetch = 1 /\ get_labels.isDict)

C20_Witness ==
  /\ pc = "role_delete"
  /\ calls.start = 1 /\ calls.receive = 1 /\ calls.fetch = 1 /\ calls.close = 1

(* C21: in a session whose job's notification reported SUCCEEDED and in     *)
(* which no call failed, the role, its attached policy, the queue, the      *)
(* topic, the staged object and the bucket are all deleted when the result  *)
(* is returned, and already when the tally starts: no counter and no        *)
(* verdict is computed before the teardown completed.                       *)
C21_TeardownBeforeTally ==
  /\ (poll.status = "SUCCEEDED" /\ err = "none" /\ pc \in TallySteps \cup {"done"})
       => AllDeleted
  /\ (pc \notin TallySteps \cup {"done"} /\ failedAt \notin TallySteps)
       => (tally.i = 0 /\ pred_values = <<>>)
  /\ pc = "done" => (poll.status = "SUCCEEDED" /\ err = "none" /\ calls.close = 1)

C21_Witness ==
  /\ pc = "done"
  /\ poll.status = "SUCCEEDED" /\ err = "none"
  /\ calls.attempts = {"grant", "queue", "topic"}
  /\ calls.deletions = 4
  /\ pred_values["label"] = "rejected"
  /\ AllDeleted

====
